---- MODULE Spec2Model ----
(***************************************************************************)
(* Model of src/src/utf_string.ts: the UtfString class, which indexes a    *)
(* JavaScript string (a sequence of 16-bit code units) by logical          *)
(* character, where a surrogate pair counts as one character.              *)
(*                                                                         *)
(* A string is a sequence of code units (integers 0..65535); JavaScript    *)
(* offsets are 0-based, so the unit at offset p of s is s[p + 1].          *)
(* An optional argument is a sequence of zero or one value (<<>> is an     *)
(* omitted argument).  NaN is the integer NaN below, which no code unit,   *)
(* offset or codepoint equals.                                             *)
(***************************************************************************)
EXTENDS Integers, Sequences, FiniteSets, TLC

\* ------------------------------------------------------------- bounds
\* Longest text (in code units) an instance is constructed from.
MaxLen == 4
\* Longest search value (in code units) given to indexOf / lastIndexOf.
MaxNeedle == 1

\* ---------------------------------------------------- JavaScript values
\* The not-a-number result of charCodeAt (src line 50) and of the native
\* charCodeAt past the end of a string.
NaN == -99

\* 'a', 'b', the high unit 0xD83D and the low unit 0xDE00 (U+1F600 is the
\* pair 0xD83D 0xDE00).
Units == {97, 98, 55357, 56832}
\* The same with the unit 0x0000.
UnitsWithNul == Units \cup {0}

RECURSIVE SeqsUpTo(_, _)
SeqsUpTo(S, n) ==
    IF n = 0 THEN {<<>>}
    ELSE LET shorter == SeqsUpTo(S, n - 1)
         IN  shorter \cup {Append(t, u) : t \in {x \in shorter : Len(x) = n - 1}, u \in S}

Min(S) == CHOOSE x \in S : \A y \in S : x <= y
Max(S) == CHOOSE x \in S : \A y \in S : x >= y

\* ------------------------------------------------- regular expressions
\* [\uD800-\uDBFF]
IsHighSurrogate(u) == 55296 <= u /\ u <= 56319
\* [\uDC00-\uDFFF]
IsLowSurrogate(u) == 56320 <= u /\ u <= 57343

\* surrogatePairs (line 2) matches at offset p of s.
surrogatePairs(s, p) ==
    /\ 0 <= p
    /\ p + 2 <= Len(s)
    /\ IsHighSurrogate(s[p + 1])
    /\ IsLowSurrogate(s[p + 2])

\* createScanner: a regular expression is the list of its alternatives, the
\* surrogate-pair pattern first, then the extra sources; the modifiers say
\* whether exec keeps a position (lastIndex) between calls.
createScanner(extraSources, modifiers) ==
    [sources |-> <<"surrogatePairs">> \o extraSources, global |-> (modifiers = "g")]

\* createScanner() with both arguments omitted: extraSources = ["[^]"],
\* modifiers = "g".
defaultScanner == createScanner(<<"[^]">>, "g")

\* new RegExp(surrogatePairs.source, "g") of findSurrogateByteIndex.
surrogateScanner == [sources |-> <<"surrogatePairs">>, global |-> TRUE]

\* The instance's clusterRegex: createScanner([], "").
clusterRegex == createScanner(<<>>, "")

\* Length of the match of the regular expression anchored at offset p of s
\* (alternatives are tried in order), 0 when it does not match there.
matchLengthAt(regex, s, p) ==
    IF surrogatePairs(s, p) THEN 2
    ELSE IF (\E k \in 1..Len(regex.sources) : regex.sources[k] = "[^]") /\ 0 <= p /\ p < Len(s)
         THEN 1
         ELSE 0

\* RegExp.prototype.exec: the leftmost match at or after lastIndex (offset 0
\* for a regular expression that is not global).  A match sets lastIndex to
\* its end; a failure resets lastIndex to 0 and returns null (found = FALSE).
exec(regex, s, lastIndex) ==
    LET from == IF regex.global THEN lastIndex ELSE 0
        hits == {p \in from..(Len(s) - 1) : matchLengthAt(regex, s, p) > 0}
    IN  IF hits = {}
        THEN [found |-> FALSE, index |-> -1, length |-> 0, lastIndex |-> 0]
        ELSE LET p == Min(hits)
             IN  [found |-> TRUE, index |-> p, length |-> matchLengthAt(regex, s, p),
                  lastIndex |-> IF regex.global THEN p + matchLengthAt(regex, s, p) ELSE 0]

\* ---------------------------------------------------- index translation
containsGraphemeClusterGroup(s) == exec(clusterRegex, s, 0).found

\* The inner while loop of scan (lines 391-408).
RECURSIVE scanInner(_, _, _, _, _)
scanInner(match, nextIdx, charIndex, byteIndex, curCharIndex) ==
    IF curCharIndex < charIndex
    THEN IF byteIndex = nextIdx
         THEN [byteIndex |-> byteIndex + (IF match.found THEN match.length ELSE 1),
               curCharIndex |-> curCharIndex + 1]
         ELSE scanInner(match, nextIdx, charIndex, byteIndex + 1, curCharIndex + 1)
    ELSE [byteIndex |-> byteIndex, curCharIndex |-> curCharIndex]

\* The outer while (true) loop of scan (lines 387-415).
RECURSIVE scanLoop(_, _, _, _, _, _)
scanLoop(scanner, s, charIndex, byteIndex, curCharIndex, lastIndex) ==
    LET match == exec(scanner, s, lastIndex)
        nextIdx == IF match.found THEN match.index ELSE Len(s)
        after == scanInner(match, nextIdx, charIndex, byteIndex, curCharIndex)
    IN  IF after.curCharIndex = charIndex THEN after.byteIndex
        ELSE IF after.byteIndex >= Len(s) \/ ~match.found THEN -1
        ELSE scanLoop(scanner, s, charIndex, after.byteIndex, after.curCharIndex,
                      match.lastIndex)

scan(scanner, s, charIndex) ==
    IF ~containsGraphemeClusterGroup(s) THEN charIndex
    ELSE scanLoop(scanner, s, charIndex, 0, 0, 0)

\* The while loop of findCharIndex (lines 349-355).
RECURSIVE findCharIndexLoop(_, _, _, _)
findCharIndexLoop(s, byteIndex, charCount, lastIndex) ==
    LET match == exec(defaultScanner, s, lastIndex)
    IN  IF ~match.found THEN charCount
        ELSE IF match.lastIndex > byteIndex THEN charCount
        ELSE findCharIndexLoop(s, byteIndex, charCount + 1, match.lastIndex)

findCharIndex(s, byteIndex) ==
    IF byteIndex >= Len(s) THEN -1
    ELSE IF ~containsGraphemeClusterGroup(s) THEN byteIndex
    ELSE findCharIndexLoop(s, byteIndex, 0, 0)

\* Mutant: the "+ 1" of length is dropped.
lengthWithoutPlusOne(s) == findCharIndex(s, Len(s) - 1)

length(s) == findCharIndex(s, Len(s) - 1) + 1

\* Mutant: the character index is returned as the code-unit offset (the
\* fast path taken unconditionally).
findByteIndexIdentity(s, charIndex) ==
    IF charIndex >= length(s) THEN -1 ELSE charIndex

findByteIndex(s, charIndex) ==
    IF charIndex >= length(s) THEN -1
    ELSE scan(defaultScanner, s, charIndex)

findSurrogateByteIndex(s, charIndex) == scan(surrogateScanner, s, charIndex)

\* ------------------------------------------------------ native strings
\* String.prototype.slice(from, to) for integer arguments.
nativeSlice(s, from, to) ==
    LET len == Len(s)
        f == IF from < 0 THEN Max({len + from, 0}) ELSE Min({from, len})
        t == IF to < 0 THEN Max({len + to, 0}) ELSE Min({to, len})
    IN  IF f >= t THEN <<>> ELSE SubSeq(s, f + 1, t)

\* String.prototype.charCodeAt(p).
nativeCharCodeAt(s, p) == IF 0 <= p /\ p < Len(s) THEN s[p + 1] ELSE NaN

\* searchValue occurs in s at offset p.
occursAt(s, searchValue, p) ==
    /\ 0 <= p
    /\ p + Len(searchValue) <= Len(s)
    /\ \A k \in 1..Len(searchValue) : s[p + k] = searchValue[k]

\* String.prototype.indexOf(searchValue, position).
nativeIndexOf(s, searchValue, position) ==
    LET start == Min({Max({position, 0}), Len(s)})
        hits == {p \in start..Len(s) : occursAt(s, searchValue, p)}
    IN  IF hits = {} THEN -1 ELSE Min(hits)

\* String.prototype.lastIndexOf(searchValue, position); position is <<>>
\* when omitted (the search then starts at the end).
nativeLastIndexOf(s, searchValue, position) ==
    LET start == IF position = <<>> THEN Len(s)
                 ELSE Min({Max({position[1], 0}), Len(s)})
        hits == {p \in 0..start : occursAt(s, searchValue, p)}
    IN  IF hits = {} THEN -1 ELSE Max(hits)

\* String.fromCharCode(u): the unit is taken modulo 2^16.
ToUint16(u) == u % 65536

\* ----------------------------------------------------------- accessors
charAt(s, index) ==
    LET byteIndex == findByteIndex(s, index)
    IN  IF byteIndex < 0 \/ byteIndex >= Len(s) THEN <<>>
        ELSE LET characters == nativeSlice(s, byteIndex, byteIndex + 8)
                 match == exec(clusterRegex, characters, 0)
             IN  IF ~match.found THEN <<characters[1]>>
                 ELSE SubSeq(characters, match.index + 1, match.index + match.length)

charCodeAt(s, index) ==
    LET byteIndex == findSurrogateByteIndex(s, index)
    IN  IF byteIndex < 0 THEN NaN
        ELSE LET code == nativeCharCodeAt(s, byteIndex)
             IN  IF code # NaN /\ 55296 <= code /\ code <= 56319
                 THEN LET hi == code
                          low == nativeCharCodeAt(s, byteIndex + 1)
                      IN  IF low = NaN THEN NaN
                          ELSE (hi - 55296) * 1024 + (low - 56320) + 65536
                 ELSE code

\* x >> n, x << n, x & mask (mask = 2^k - 1) and a | b on the non-negative
\* integers below 2^31 the code applies them to.
ShiftRight(x, n) == x \div (2 ^ n)
ShiftLeft(x, n) == x * (2 ^ n)
BitAnd(x, mask) == x % (mask + 1)
RECURSIVE BitOr(_, _)
BitOr(a, b) ==
    IF a = 0 THEN b
    ELSE IF b = 0 THEN a
    ELSE (IF a % 2 = 1 \/ b % 2 = 1 THEN 1 ELSE 0) + 2 * BitOr(a \div 2, b \div 2)

\* Mutant: the 0x10000 offset is not subtracted before the split.
stringFromCharCodeNoOffset(charCode) ==
    IF charCode > 65535
    THEN <<ToUint16(55296 + ShiftRight(charCode, 10)), ToUint16(56320 + BitAnd(charCode, 1023))>>
    ELSE <<ToUint16(charCode)>>

stringFromCharCode(charCode) ==
    IF charCode > 65535
    THEN LET c == charCode - 65536
         IN  <<ToUint16(55296 + ShiftRight(c, 10)), ToUint16(56320 + BitAnd(c, 1023))>>
    ELSE <<ToUint16(charCode)>>

\* -------------------------------------------------------------- search
\* Mutant: the found code-unit offset is returned untranslated.
indexOfCodeUnitOffset(s, needle, start) ==
    nativeIndexOf(s, needle, findByteIndex(s, IF start = <<>> THEN 0 ELSE start[1]))

\* start is <<>> when omitted (the default 0 then applies).
indexOf(s, needle, start) ==
    LET startByteIndex == findByteIndex(s, IF start = <<>> THEN 0 ELSE start[1])
        idx == nativeIndexOf(s, needle, startByteIndex)
    IN  IF idx < 0 THEN -1 ELSE findCharIndex(s, idx)

lastIndexOf(s, needle, start) ==
    LET idx == IF start = <<>>
               THEN nativeLastIndexOf(s, needle, <<>>)
               ELSE nativeLastIndexOf(s, needle, <<findByteIndex(s, start[1])>>)
    IN  IF idx < 0 THEN -1 ELSE findCharIndex(s, idx)

\* ------------------------------------------------------------- slicing
\* startByteIndex of slice (lines 125-129).
sliceStartByteIndex(s, start) ==
    LET startByteIndex == findByteIndex(s, start)
    IN  IF startByteIndex < 0 THEN Len(s) ELSE startByteIndex

\* finishByteIndex of slice (lines 131-141).
sliceFinishByteIndex(s, finish) ==
    IF finish = <<>> THEN Len(s)
    ELSE LET finishByteIndex == findByteIndex(s, finish[1])
         IN  IF finishByteIndex < 0 THEN Len(s) ELSE finishByteIndex

\* Mutant: the character indices are used as code-unit offsets.
sliceUntranslated(s, start, finish) ==
    nativeSlice(s, IF start < 0 \/ start >= length(s) THEN Len(s) ELSE start,
                IF finish = <<>> \/ finish[1] < 0 \/ finish[1] >= length(s)
                THEN Len(s) ELSE finish[1])

\* Mutant: a start that findByteIndex rejects is not clamped to the end.
sliceUnclampedStart(s, start, finish) ==
    nativeSlice(s, findByteIndex(s, start), sliceFinishByteIndex(s, finish))

\* The originalString of the instance slice returns.
slice(s, start, finish) ==
    nativeSlice(s, sliceStartByteIndex(s, start), sliceFinishByteIndex(s, finish))

\* len is <<>> when omitted.
substr(s, start, len) ==
    LET st == IF start < 0 THEN length(s) + start ELSE start
    IN  IF len = <<>> THEN slice(s, st, <<>>) ELSE slice(s, st, <<st + len[1]>>)

substring(s, start, len) == substr(s, start, len)

\* --------------------------------------------------------- conversions
\* The for loop of toCodePoints (lines 190-198); a falsy codepoint (0 or NaN)
\* ends it.
RECURSIVE toCodePointsLoop(_, _, _)
toCodePointsLoop(s, i, result) ==
    IF i < Len(s)
    THEN LET codePoint == charCodeAt(s, i)
         IN  IF codePoint = 0 \/ codePoint = NaN THEN result
             ELSE toCodePointsLoop(s, i + 1, Append(result, codePoint))
    ELSE result

toCodePoints(s) == toCodePointsLoop(s, 0, <<>>)

RECURSIVE codePointsToString(_)
codePointsToString(arr) ==
    IF arr = <<>> THEN <<>>
    ELSE stringFromCharCode(Head(arr)) \o codePointsToString(Tail(arr))

\* The while (chr > 0) loop of stringToBytes (lines 244-247): the bytes of chr,
\* least significant first.
RECURSIVE byteArrayOf(_)
byteArrayOf(chr) ==
    IF chr > 0 THEN <<BitAnd(chr, 255)>> \o byteArrayOf(ShiftRight(chr, 8)) ELSE <<>>

reverse(arr) == [k \in 1..Len(arr) |-> arr[Len(arr) + 1 - k]]

RECURSIVE stringToBytes(_)
stringToBytes(str) ==
    IF str = <<>> THEN <<>>
    ELSE LET raw == byteArrayOf(Head(str))
             byteArray == IF Len(raw) = 1 THEN Append(raw, 0) ELSE raw
         IN  reverse(byteArray) \o stringToBytes(Tail(str))

\* The for loop of bytesToString (lines 274-279) from offset i; a missing low
\* byte (odd length) is undefined, which "|" reads as 0.
RECURSIVE bytesToStringFrom(_, _)
bytesToStringFrom(arr, i) ==
    IF i < Len(arr)
    THEN LET hi == arr[i + 1]
             low == IF i + 1 < Len(arr) THEN arr[i + 2] ELSE 0
         IN  <<ToUint16(BitOr(ShiftLeft(hi, 8), low))>> \o bytesToStringFrom(arr, i + 2)
    ELSE <<>>

bytesToString(arr) == bytesToStringFrom(arr, 0)

\* The do/while loop of stringToCharArray (lines 299-307).
RECURSIVE stringToCharArrayLoop(_, _, _)
stringToCharArrayLoop(str, result, lastIndex) ==
    LET match == exec(defaultScanner, str, lastIndex)
    IN  IF ~match.found THEN result
        ELSE stringToCharArrayLoop(
                 str, Append(result, SubSeq(str, match.index + 1, match.index + match.length)),
                 match.lastIndex)

stringToCharArray(str) == stringToCharArrayLoop(str, <<>>, 0)

\* ------------------------------------------------------------- state
VARIABLES
    originalString,   \* the instance's code units
    index,            \* the index argument (character index, start, or byte index)
    finish,           \* slice's optional second argument
    searchValue,      \* the search value of indexOf / lastIndexOf
    input,            \* the argument of a static factory
    op,               \* "pending": a factory is to be called; "constructed":
                      \* the instance exists; otherwise the method that returned
    ret               \* the value the method returned

vars == <<originalString, index, finish, searchValue, input, op, ret>>

Texts == SeqsUpTo(Units, MaxLen)
\* Character indices and byte indices given by callers: one below zero to
\* one past the longest text.
Indices == (-1)..(MaxLen + 1)

\* What a method call leaves alone: the instance is immutable, and so are
\* the arguments.
instance == <<originalString, index, finish, searchValue, input>>

FindByteIndex ==
    /\ op = "constructed"
    /\ op' = "findByteIndex"
    /\ ret' = findByteIndex(originalString, index)
    /\ UNCHANGED instance

FindCharIndex ==
    /\ op = "constructed"
    /\ op' = "findCharIndex"
    /\ ret' = findCharIndex(originalString, index)
    /\ UNCHANGED instance

Length ==
    /\ op = "constructed"
    /\ op' = "length"
    /\ ret' = length(originalString)
    /\ UNCHANGED instance

CharAt ==
    /\ op = "constructed"
    /\ op' = "charAt"
    /\ ret' = charAt(originalString, index)
    /\ UNCHANGED instance

CharCodeAt ==
    /\ op = "constructed"
    /\ op' = "charCodeAt"
    /\ ret' = charCodeAt(originalString, index)
    /\ UNCHANGED instance

ToCharArray ==
    /\ op = "constructed"
    /\ op' = "toCharArray"
    /\ ret' = stringToCharArray(originalString)
    /\ UNCHANGED instance

\* indexOf / lastIndexOf with the start argument given, and omitted.
IndexOf ==
    /\ op = "constructed"
    /\ op' = "indexOf"
    /\ ret' = indexOf(originalString, searchValue, <<index>>)
    /\ UNCHANGED instance

IndexOfNoStart ==
    /\ op = "constructed"
    /\ op' = "indexOfNoStart"
    /\ ret' = indexOf(originalString, searchValue, <<>>)
    /\ UNCHANGED instance

LastIndexOf ==
    /\ op = "constructed"
    /\ op' = "lastIndexOf"
    /\ ret' = lastIndexOf(originalString, searchValue, <<index>>)
    /\ UNCHANGED instance

LastIndexOfNoStart ==
    /\ op = "constructed"
    /\ op' = "lastIndexOfNoStart"
    /\ ret' = lastIndexOf(originalString, searchValue, <<>>)
    /\ UNCHANGED instance

\* slice, substr and substring return a new instance; ret is its
\* originalString.
Slice ==
    /\ op = "constructed"
    /\ op' = "slice"
    /\ ret' = slice(originalString, index, finish)
    /\ UNCHANGED instance

Substr ==
    /\ op = "constructed"
    /\ op' = "substr"
    /\ ret' = substr(originalString, index, finish)
    /\ UNCHANGED instance

Substring ==
    /\ op = "constructed"
    /\ op' = "substring"
    /\ ret' = substring(originalString, index, finish)
    /\ UNCHANGED instance

ToBytes ==
    /\ op = "constructed"
    /\ op' = "toBytes"
    /\ ret' = stringToBytes(originalString)
    /\ UNCHANGED instance

ToCodePoints ==
    /\ op = "constructed"
    /\ op' = "toCodePoints"
    /\ ret' = toCodePoints(originalString)
    /\ UNCHANGED instance

\* The static factories fromBytes and fromCodePoints applied to what toBytes
\* and toCodePoints returned; ret is the new instance's originalString.
FromBytes ==
    /\ op = "toBytes"
    /\ op' = "fromBytes"
    /\ ret' = bytesToString(ret)
    /\ UNCHANGED instance

FromCodePoints ==
    /\ op = "toCodePoints"
    /\ op' = "fromCodePoints"
    /\ ret' = codePointsToString(ret)
    /\ UNCHANGED instance

\* The static factory fromCharCode(input) constructs the instance.
FromCharCode ==
    /\ op = "pending"
    /\ op' = "constructed"
    /\ originalString' = stringFromCharCode(input)
    /\ UNCHANGED <<index, finish, searchValue, input, ret>>

\* Instances over every text, with every index argument.
InitIndex ==
    /\ originalString \in Texts
    /\ index \in Indices
    /\ finish = <<>>
    /\ searchValue = <<>>
    /\ input = 0
    /\ op = "constructed"
    /\ ret = <<>>

NextIndex ==
    FindByteIndex \/ FindCharIndex \/ Length \/ CharAt \/ CharCodeAt \/ ToCharArray

SpecIndex == InitIndex /\ [][NextIndex]_vars

\* Every search value up to MaxNeedle units, and two longer ones: the emoji
\* pair, and the pair's low unit followed by "b" (an occurrence that starts
\* inside a logical character).
SearchValues == SeqsUpTo(Units, MaxNeedle) \cup {<<55357, 56832>>, <<56832, 98>>}

\* Instances over every text, with every search value and start index.
InitSearch ==
    /\ originalString \in Texts
    /\ index \in Indices
    /\ finish = <<>>
    /\ searchValue \in SearchValues
    /\ input = 0
    /\ op = "constructed"
    /\ ret = <<>>

NextSearch == IndexOf \/ IndexOfNoStart \/ LastIndexOf \/ LastIndexOfNoStart

SpecSearch == InitSearch /\ [][NextSearch]_vars

\* Instances over every text, with every start and every second argument
\* (omitted, or an index).
InitSlice ==
    /\ originalString \in Texts
    /\ index \in Indices
    /\ finish \in {<<>>} \cup {<<i>> : i \in Indices}
    /\ searchValue = <<>>
    /\ input = 0
    /\ op = "constructed"
    /\ ret = <<>>

NextSlice == Slice \/ Substr \/ Substring

SpecSlice == InitSlice /\ [][NextSlice]_vars

\* Instances over every text, the unit 0x0000 included.
InitConvert ==
    /\ originalString \in SeqsUpTo(UnitsWithNul, MaxLen)
    /\ index = 0
    /\ finish = <<>>
    /\ searchValue = <<>>
    /\ input = 0
    /\ op = "constructed"
    /\ ret = <<>>

NextConvert == ToBytes \/ FromBytes \/ ToCodePoints \/ FromCodePoints

SpecConvert == InitConvert /\ [][NextConvert]_vars

\* Every codepoint of [0, 0x10FFFF], the surrogate-reserved values included.
CodePoints == 0..1114111

\* fromCharCode(input) is to be called, then charCodeAt(0) of its instance.
InitCodePoint ==
    /\ originalString = <<>>
    /\ index = 0
    /\ finish = <<>>
    /\ searchValue = <<>>
    /\ input \in CodePoints
    /\ op = "pending"
    /\ ret = <<>>

NextCodePoint == FromCharCode \/ CharCodeAt

SpecCodePoint == InitCodePoint /\ [][NextCodePoint]_vars

\* ------------------------------------------------ logical characters
\* The logical characters of a text, as the specification defines them: a
\* high unit immediately followed by a low unit is one character of two
\* units, every other unit is one character.
RECURSIVE LogicalChars(_)
LogicalChars(s) ==
    IF s = <<>> THEN <<>>
    ELSE IF Len(s) >= 2 /\ IsHighSurrogate(s[1]) /\ IsLowSurrogate(s[2])
         THEN <<SubSeq(s, 1, 2)>> \o LogicalChars(SubSeq(s, 3, Len(s)))
         ELSE <<SubSeq(s, 1, 1)>> \o LogicalChars(Tail(s))

\* The code-unit offset at which logical character i (0-based) begins: the
\* sum of the widths of the i characters before it.
RECURSIVE StartOffset(_, _)
StartOffset(chars, i) ==
    IF i <= 0 THEN 0 ELSE StartOffset(chars, i - 1) + Len(chars[i])

\* The concatenation of logical characters from..to-1 (0-based).
RECURSIVE ConcatChars(_, _, _)
ConcatChars(chars, from, to) ==
    IF from >= to \/ from >= Len(chars) THEN <<>>
    ELSE chars[from + 1] \o ConcatChars(chars, from + 1, to)

\* The index of the logical character whose span holds code-unit offset p.
CharIndexOfOffset(chars, p) ==
    CHOOSE i \in 0..(Len(chars) - 1) :
        StartOffset(chars, i) <= p /\ p < StartOffset(chars, i) + Len(chars[i + 1])

\* "a" + U+1F600 + "b"
EmojiText == <<97, 55357, 56832, 98>>

\* ------------------------------------------------------------ claims
\* C1: findByteIndex(i) is the offset at which logical character i begins
\* (the sum of the widths of the i characters before it) for 0 <= i <
\* length(), and -1 for i >= length(); findCharIndex(b) is i for every offset
\* b inside character i's span, and -1 for b >= the code-unit length.
C1_IndexTranslation ==
    LET chars == LogicalChars(originalString)
    IN  /\ op = "findByteIndex" =>
            /\ (0 <= index /\ index < Len(chars)) => ret = StartOffset(chars, index)
            /\ index >= Len(chars) => ret = -1
        /\ op = "findCharIndex" =>
            /\ index >= Len(originalString) => ret = -1
            /\ (0 <= index /\ index < Len(originalString)) =>
                   /\ 0 <= ret /\ ret < Len(chars)
                   /\ StartOffset(chars, ret) <= index
                   /\ index < StartOffset(chars, ret) + Len(chars[ret + 1])

\* findByteIndex(2) of "a" + U+1F600 + "b" is 3: the pair before it is two
\* units wide.
C1_Witness ==
    /\ op = "findByteIndex"
    /\ originalString = EmojiText
    /\ index = 2
    /\ ret = 3

\* C2: charAt(i) is exactly logical character i, for every valid i.
C2_CharAtIsLogicalChar ==
    LET chars == LogicalChars(originalString)
    IN  (op = "charAt" /\ 0 <= index /\ index < Len(chars)) => ret = chars[index + 1]

\* C3: length() is the number of logical characters; 0 for the empty text.
C3_Length ==
    op = "length" => ret = Len(LogicalChars(originalString))

\* length() of "a" + U+1F600 + "b" (four units) is 3.
C3_Witness ==
    /\ op = "length"
    /\ originalString = EmojiText
    /\ ret = 3

\* C4: for a valid start character index, indexOf(needle, start) is the
\* character index of the first occurrence of the needle at or after the
\* code-unit offset of character start (not that occurrence's code-unit
\* offset), and -1 when there is no such occurrence.
C4_IndexOfCharIndex ==
    LET chars == LogicalChars(originalString)
        start == IF op = "indexOf" THEN index ELSE 0
        from == StartOffset(chars, start)
        hits == {p \in from..Len(originalString) : occursAt(originalString, searchValue, p)}
    IN  (op \in {"indexOf", "indexOfNoStart"} /\ 0 <= start /\ start < Len(chars)) =>
            ret = IF hits = {} THEN -1 ELSE CharIndexOfOffset(chars, Min(hits))

\* indexOf("b") in "a" + U+1F600 + "b" is character index 2 (the code-unit
\* offset is 3).
C4_Witness ==
    /\ op = "indexOf"
    /\ originalString = EmojiText
    /\ searchValue = <<98>>
    /\ index = 0
    /\ ret = 2

\* C5: indexOf(needle, start) and lastIndexOf(needle, start) are -1 whenever
\* start >= length(), whether or not the needle occurs in the text.
C5_SearchStartOutOfRange ==
    (op \in {"indexOf", "lastIndexOf"} /\ index >= Len(LogicalChars(originalString))) =>
        ret = -1

\* C6: slice never cuts between the high and the low unit of a surrogate
\* pair, and for character indices start and end (0 or more; end omitted
\* means the end of the text) its result is the concatenation of logical
\* characters start..end-1.
C6_SliceKeepsPairs ==
    LET chars == LogicalChars(originalString)
        startByteIndex == sliceStartByteIndex(originalString, index)
        finishByteIndex == sliceFinishByteIndex(originalString, finish)
        end == IF finish = <<>> THEN Len(chars) ELSE finish[1]
    IN  op = "slice" =>
            /\ ~surrogatePairs(originalString, startByteIndex - 1)
            /\ ~surrogatePairs(originalString, finishByteIndex - 1)
            /\ (index >= 0 /\ end >= 0) => ret = ConcatChars(chars, index, end)

\* slice(1, 2) of "a" + U+1F600 + "b" is the whole two-unit emoji.
C6_Witness ==
    /\ op = "slice"
    /\ originalString = EmojiText
    /\ index = 1
    /\ finish = <<2>>
    /\ ret = <<55357, 56832>>

\* C7 as stated: slice(start) with start >= length() is empty, and
\* slice(start, end) with end < start is empty.
C7_SliceEmptyAsStated ==
    LET chars == LogicalChars(originalString)
    IN  op = "slice" =>
            /\ index >= Len(chars) => ret = <<>>
            /\ (finish # <<>> /\ finish[1] < index) => ret = <<>>

\* C7 amended: a start or a provided end that is out of range (negative, or >=
\* length()) is clamped to the end of the text; so slice(start) with start
\* out of range is empty, slice(start, end) with end out of range runs from
\* character start to the end of the text, and slice(start, end) with
\* 0 <= end < start is empty.
C7_SliceClamps ==
    LET chars == LogicalChars(originalString)
        outOfRange(i) == i < 0 \/ i >= Len(chars)
    IN  op = "slice" =>
            /\ outOfRange(index) => ret = <<>>
            /\ (finish # <<>> /\ outOfRange(finish[1]) /\ ~outOfRange(index)) =>
                   ret = ConcatChars(chars, index, Len(chars))
            /\ (finish # <<>> /\ 0 <= finish[1] /\ finish[1] < index) => ret = <<>>

\* slice(3) of "a" + U+1F600 + "b" (length() = 3) is empty.
C7_Witness ==
    /\ op = "slice"
    /\ originalString = EmojiText
    /\ index = 3
    /\ finish = <<>>
    /\ ret = <<>>

\* C8: fromCharCode(c).charCodeAt(0) = c for every codepoint c of
\* [0, 0x10FFFF] outside 0xD800-0xDFFF; a codepoint above 0xFFFF is stored as
\* a high unit followed by a low unit.
C8_CodePointRoundTrip ==
    LET reserved == 55296 <= input /\ input <= 57343
    IN  /\ (op = "charCodeAt" /\ ~reserved) => ret = input
        /\ (op = "constructed" /\ input > 65535) =>
               /\ Len(originalString) = 2
               /\ IsHighSurrogate(originalString[1])
               /\ IsLowSurrogate(originalString[2])
        /\ (op = "constructed" /\ input <= 65535) => originalString = <<input>>

\* charCodeAt(0) of fromCharCode(0x1F600) is 0x1F600.
C8_Witness ==
    /\ op = "charCodeAt"
    /\ input = 128512
    /\ originalString = <<55357, 56832>>
    /\ ret = 128512

\* C9: toBytes emits exactly two big-endian bytes per code unit, and
\* fromBytes(toBytes(s)) is s, for any sequence of code units.
C9_ByteRoundTrip ==
    /\ op = "toBytes" =>
           /\ Len(ret) = 2 * Len(originalString)
           /\ \A k \in 1..Len(originalString) :
                  /\ ret[2 * k - 1] = originalString[k] \div 256
                  /\ ret[2 * k] = originalString[k] % 256
    /\ op = "fromBytes" => ret = originalString

\* C10: fromCodePoints(toCodePoints(s)) is s for any text without the
\* codepoint 0.
C10_CodePointsRoundTrip ==
    (op = "fromCodePoints" /\ \A k \in 1..Len(originalString) : originalString[k] # 0) =>
        ret = originalString
====
